---------------------------- MODULE Spec2Model ----------------------------
(***************************************************************************)
(* Model of the historical executive-order pipeline:                       *)
(*   - the per-order handler (extract_historical_order_details_ny.py):     *)
(*     lambda_handler -> process_order -> download_pdf,                     *)
(*     extract_text_from_pdf, and the two database writes of config.py;    *)
(*   - the listing scraper (scrape_historical_orders_ny.py), and its       *)
(*     parse_date on its own;                                              *)
(*   - two concurrent instances of process_order on the shared store.      *)
(* Strings are sequences of characters; "" is the empty sequence.          *)
(***************************************************************************)
EXTENDS Integers, Sequences, FiniteSets, TLC

(***************************************************************************)
(* Bounds of the model                                                     *)
(***************************************************************************)
\* number of handler invocations in one behaviour
MaxRuns == 2

(***************************************************************************)
(* Program constants                                                       *)
(***************************************************************************)
\* stop_after_attempt(3) on db_upsert
UpsertAttempts == 3
\* process_order(..., max_retries=3)
max_retries == 3
\* page_count > 3000
MaxPages == 3000
\* max_wait = 600
max_wait == 600
\* time.sleep(5)
PollSleep == 5

None == "None"
EmptyStr == << >>

\* no file, no key, no event yet
NoPdf == [page_count |-> 0, layer |-> None, valid |-> FALSE, encrypted |-> FALSE]
NoKey == [name |-> None, t |-> 0]
NoEvent == [order_id |-> None, order_data |-> None]

OrderIds == {"NYORDER5", "NYORDER5_1"}
Titles == {"Test Title", "No title available"}

\* the event handed to the per-order handler: event.get('order_id'),
\* event.get('order_data'); a descriptor carries the title written to the row
Events == [order_id : OrderIds \cup {None}, order_data : Titles \cup {None}]

(***************************************************************************)
(* Strings                                                                 *)
(***************************************************************************)
RECURSIVE JoinNL(_)
\* "\n".join(parts)
JoinNL(parts) ==
    IF parts = << >> THEN << >>
    ELSE IF Len(parts) = 1 THEN parts[1]
    ELSE parts[1] \o <<"\n">> \o JoinNL(Tail(parts))

IsSpace(c) == c \in {" ", "\n"}

RECURSIVE LStrip(_)
LStrip(s) == IF s # << >> /\ IsSpace(s[1]) THEN LStrip(Tail(s)) ELSE s

RECURSIVE RStrip(_)
RStrip(s) ==
    IF s # << >> /\ IsSpace(s[Len(s)]) THEN RStrip(SubSeq(s, 1, Len(s) - 1)) ELSE s

\* str.strip()
Strip(s) == RStrip(LStrip(s))

(***************************************************************************)
(* The downloaded PDF.  layer: what pdfplumber finds ("text": a text        *)
(* layer, "blank": pages with whitespace only, "unreadable": pdfplumber     *)
(* raises); valid: PdfReader parses it; encrypted: reader.is_encrypted.     *)
(***************************************************************************)
Pdfs ==
    { p \in [page_count : {MaxPages, MaxPages + 1},
             layer : {"text", "blank", "unreadable"},
             valid : BOOLEAN,
             encrypted : BOOLEAN] : p.encrypted => p.valid }

\* page.extract_text() of each page (the pages beyond the second have none)
PageTexts(p) ==
    IF p.layer = "text" THEN << <<"x">>, << >> >> ELSE << <<" ">>, << >> >>

\* "\n".join(page.extract_text() or "" for page in pdf.pages).strip()
DirectText(p) == Strip(JoinNL(PageTexts(p)))

\* is_valid_pdf
is_valid_pdf(p) == p.valid

\* an encryption test that never reports encryption
is_encrypted_pdf_Never(p) == FALSE

\* is_encrypted_pdf: False when the reader cannot open the file
is_encrypted_pdf(p) == p.valid /\ p.encrypted

(***************************************************************************)
(* The relational store.  A table is a sequence of rows.                   *)
(***************************************************************************)
HasRow(table, id) == \E i \in DOMAIN table : table[i].order_id = id

RowCount(table, id) == Cardinality({i \in DOMAIN table : table[i].order_id = id})

\* an INSERT without its ON CONFLICT clause, on a table without the constraint
UpsertStatement_NoConflict(table, data) == Append(table, data)

\* INSERT ... ON CONFLICT (order_id) DO UPDATE SET col = EXCLUDED.col
UpsertStatement(table, data) ==
    IF HasRow(table, data.order_id)
    THEN [i \in DOMAIN table |->
            IF table[i].order_id = data.order_id THEN data ELSE table[i]]
    ELSE Append(table, data)

\* a read-then-write that skips the existence check and always inserts
InsertOrUpdateTxn_AlwaysInsert(table, data) == Append(table, data)

\* SELECT 1 ... WHERE order_id = :value; then UPDATE or INSERT, one transaction
InsertOrUpdateTxn(table, data) ==
    IF HasRow(table, data.order_id)
    THEN [i \in DOMAIN table |->
            IF table[i].order_id = data.order_id THEN data ELSE table[i]]
    ELSE Append(table, data)


(***************************************************************************)
(* Textract results: a job's result is a sequence of pages (one per        *)
(* get_document_text_detection response), each a sequence of blocks.       *)
(***************************************************************************)
Line(t) == [BlockType |-> "LINE", Text |-> t]
Word(t) == [BlockType |-> "WORD", Text |-> t]

OcrResults ==
    { << << Line(<<"a">>), Word(<<"a">>) >> >>,
      << << Line(<<"a">>) >>, << Word(<<"b">>), Line(<<"b">>) >> >> }

RECURSIVE LineTexts(_)
\* for block in response['Blocks']: if block['BlockType'] == 'LINE': append
LineTexts(blocks) ==
    IF blocks = << >> THEN << >>
    ELSE IF blocks[1].BlockType = "LINE"
         THEN <<blocks[1].Text>> \o LineTexts(Tail(blocks))
         ELSE LineTexts(Tail(blocks))

(***************************************************************************)
(* State of the per-order pipeline                                         *)
(***************************************************************************)
VARIABLES
    pc,               \* position of the per-order invocation
    run,              \* invocations started so far
    env_bucket,       \* os.environ.get('S3_BUCKET_NAME') is set
    event,            \* the handler's event
    engine,           \* get_db_connection()'s result
    statusCode,       \* the handler's returned statusCode (0: none yet)
    result,           \* process_order's outcome: "none", "True", "False", "raised"
    executive_orders, \* table ny.executive_orders (unique on order_id)
    order_texts,      \* table ny.order_texts (no uniqueness constraint)
    attempt,          \* attempt number of the running retry loop
    pdf,              \* the downloaded PDF
    bucket,           \* keys of the objects staged in the bucket
    ex,               \* locals of extract_text_from_pdf: s3_key, status,
                      \* elapsed (time.time() - start_time), pages (result pages
                      \* not yet fetched), extracted_text, ret (pending return),
                      \* fetch_raised (a call for a further result page raised)
    text,             \* value extract_text_from_pdf returned
    calls,            \* collaborator calls issued in this invocation
    done,             \* stages that committed in this invocation
    prev              \* the previous invocation's event when that invocation
                      \* committed both rows, NoEvent otherwise

order_vars ==
    << pc, run, env_bucket, event, engine, statusCode, result, executive_orders,
       order_texts, attempt, pdf, bucket, ex, text, calls, done, prev >>

NoCalls ==
    [download |-> 0, extract |-> 0, validate |-> 0, upload |-> 0, start |-> 0,
     poll |-> 0, delete |-> 0, textwrite |-> 0]

NoneDone == [meta |-> FALSE, text |-> FALSE]

NoLocals ==
    [s3_key |-> NoKey, status |-> None, elapsed |-> 0, pages |-> << >>,
     extracted_text |-> << >>, ret |-> EmptyStr, fetch_raised |-> FALSE]

Count(what) == calls' = [calls EXCEPT ![what] = @ + 1]

InitOrder ==
    /\ pc = "idle"
    /\ run = 0
    /\ env_bucket = FALSE
    /\ event = NoEvent
    /\ engine = None
    /\ statusCode = 0
    /\ result = "none"
    /\ executive_orders = << >>
    /\ order_texts = << >>
    /\ attempt = 0
    /\ pdf = NoPdf
    /\ bucket = {}
    /\ ex = NoLocals
    /\ text = EmptyStr
    /\ calls = NoCalls
    /\ done = NoneDone
    /\ prev = NoEvent

(***************************************************************************)
(* Per-order handler: lambda_handler and process_order                     *)
(***************************************************************************)
\* the tables, the bucket and the invocation's inputs
Stores == << executive_orders, order_texts, bucket >>
Inputs == << run, env_bucket, event, prev >>

\* the handler returns a response with this statusCode; the temporary
\* directory and the invocation's locals are gone
Respond(code) ==
    /\ statusCode' = code
    /\ pc' = "idle"
    /\ engine' = None
    /\ attempt' = 0
    /\ pdf' = NoPdf
    /\ ex' = NoLocals
    /\ text' = EmptyStr
    /\ calls' = NoCalls

\* process_order returns r (or raises) to lambda_handler
ProcessOrderEnds(r) ==
    /\ result' = r
    /\ pc' = "h_result"

\* extract_text_from_pdf returns t to process_order
ExtractReturns(t) ==
    /\ text' = t
    /\ pc' = "po_text"
    /\ attempt' = 0
    /\ ex' = NoLocals

\* a new invocation of the per-order handler arrives
Invoke ==
    /\ pc = "idle"
    /\ run < MaxRuns
    /\ run' = run + 1
    /\ env_bucket' \in BOOLEAN
    /\ event' \in Events
    /\ prev' = IF done.meta /\ done.text THEN event ELSE NoEvent
    /\ pc' = "handler"
    /\ statusCode' = 0
    /\ result' = "none"
    /\ done' = NoneDone
    /\ UNCHANGED << engine, attempt, pdf, ex, text, calls >>
    /\ UNCHANGED Stores

\* a handler that calls process_order without looking at the engine
HandlerEntry_NoEngineCheck ==
    /\ pc = "handler"
    /\ IF ~env_bucket
       THEN Respond(400)
       ELSE IF event.order_id = None \/ event.order_data = None
       THEN Respond(400)
       ELSE \E connected \in BOOLEAN :
              /\ engine' = IF connected THEN "engine" ELSE None
              /\ attempt' = 1
              /\ pc' = "po_upsert"
              /\ UNCHANGED << statusCode, pdf, ex, text, calls >>
    /\ UNCHANGED << result, done >>
    /\ UNCHANGED Stores
    /\ UNCHANGED Inputs

\* lambda_handler up to the call of process_order (lines 290-305)
HandlerEntry ==
    /\ pc = "handler"
    /\ IF ~env_bucket
       THEN Respond(400)
       ELSE IF event.order_id = None \/ event.order_data = None
       THEN Respond(400)
       ELSE \E connected \in BOOLEAN :
              IF connected
              THEN /\ engine' = "engine"
                   /\ attempt' = 1
                   /\ pc' = "po_upsert"
                   /\ UNCHANGED << statusCode, pdf, ex, text, calls >>
              ELSE Respond(500)
    /\ UNCHANGED << result, done >>
    /\ UNCHANGED Stores
    /\ UNCHANGED Inputs

\* order_entry of process_order
OrderEntry == [order_id |-> event.order_id, title |-> event.order_data]

\* text_entry of process_order
TextEntry == [order_id |-> event.order_id, text |-> text]

\* a db_upsert that logs a failing statement and returns instead of raising
db_upsert_Swallows(eng, table, data, stmt_ok, att) ==
    IF eng # None /\ stmt_ok
    THEN [table |-> UpsertStatement(table, data), committed |-> TRUE,
          retry |-> FALSE, raised |-> FALSE]
    ELSE [table |-> table, committed |-> FALSE, retry |-> FALSE, raised |-> FALSE]

\* one attempt of db_upsert under @retry(stop_after_attempt(3)): without an
\* engine it returns False; a failing statement is rolled back and re-raised,
\* and the last attempt's failure reaches the caller as an exception
db_upsert(eng, table, data, stmt_ok, att) ==
    IF eng = None
    THEN [table |-> table, committed |-> FALSE, retry |-> FALSE, raised |-> FALSE]
    ELSE IF stmt_ok
    THEN [table |-> UpsertStatement(table, data), committed |-> TRUE,
          retry |-> FALSE, raised |-> FALSE]
    ELSE [table |-> table, committed |-> FALSE, retry |-> att < UpsertAttempts,
          raised |-> att >= UpsertAttempts]

\* process_order, lines 246-252: an exception of db_upsert returns False
upsert_metadata ==
    /\ pc = "po_upsert"
    /\ \E stmt_ok \in BOOLEAN :
         LET call == db_upsert(engine, executive_orders, OrderEntry, stmt_ok, attempt) IN
         /\ executive_orders' = call.table
         /\ done' = [done EXCEPT !.meta = call.committed]
         /\ IF call.retry
            THEN /\ attempt' = attempt + 1
                 /\ UNCHANGED << pc, result >>
            ELSE IF call.raised
            THEN /\ ProcessOrderEnds("False")
                 /\ UNCHANGED attempt
            ELSE /\ pc' = "po_download"
                 /\ attempt' = 0
                 /\ UNCHANGED result
    /\ UNCHANGED << engine, statusCode, order_texts, bucket, pdf, ex, text, calls >>
    /\ UNCHANGED Inputs

\* download_pdf: the path of the saved file, or None on a RequestException
\* (lines 254-257)
download_pdf ==
    /\ pc = "po_download"
    /\ Count("download")
    /\ \E p \in Pdfs \cup {NoPdf} :
         IF p = NoPdf
         THEN /\ ProcessOrderEnds("False")
              /\ UNCHANGED pdf
         ELSE /\ pdf' = p
              /\ pc' = "ex_direct"
              /\ UNCHANGED result
    /\ UNCHANGED << engine, statusCode, attempt, ex, text, done >>
    /\ UNCHANGED Stores
    /\ UNCHANGED Inputs

\* db_insert_or_update: the table after the call, the value returned and
\* whether the call raises.  A failing transaction is rolled back and caught
\* by `except Exception` (return False); nothing is re-raised
db_insert_or_update(eng, table, data, txn_ok) ==
    IF eng = None
    THEN [table |-> table, returned |-> FALSE, raised |-> FALSE]
    ELSE IF txn_ok
    THEN [table |-> InsertOrUpdateTxn(table, data), returned |-> TRUE, raised |-> FALSE]
    ELSE [table |-> table, returned |-> FALSE, raised |-> FALSE]

\* one iteration of `for attempt in range(max_retries)` in process_order: the
\* value db_insert_or_update returns is not read; `return True` follows the
\* call, and the except branch runs only when the call raises
write_text ==
    /\ pc = "po_text"
    /\ attempt < max_retries
    /\ Count("textwrite")
    /\ \E txn_ok \in BOOLEAN :
         LET call == db_insert_or_update(engine, order_texts, TextEntry, txn_ok) IN
         /\ order_texts' = call.table
         /\ done' = [done EXCEPT !.text = call.returned]
         /\ IF ~call.raised
            THEN /\ ProcessOrderEnds("True")
                 /\ UNCHANGED attempt
            ELSE IF attempt = max_retries - 1
            THEN /\ ProcessOrderEnds("False")
                 /\ UNCHANGED attempt
            ELSE /\ attempt' = attempt + 1
                 /\ UNCHANGED << pc, result >>
    /\ UNCHANGED << engine, statusCode, executive_orders, bucket, pdf, ex, text >>
    /\ UNCHANGED Inputs

\* lambda_handler after process_order (lines 306-327): 200 on True,
\* RuntimeError -> 500 on False, `except Exception` -> 500 when it raised
HandlerResult ==
    /\ pc = "h_result"
    /\ Respond(IF result = "True" THEN 200 ELSE 500)
    /\ UNCHANGED << result, done >>
    /\ UNCHANGED Stores
    /\ UNCHANGED Inputs

(***************************************************************************)
(* extract_text_from_pdf                                                   *)
(***************************************************************************)
\* what an extraction step leaves alone outside the function's locals
Caller == << engine, statusCode, executive_orders, order_texts, pdf, done >>

\* the staged object's key, textract-input/<basename>_<int(time.time())>.pdf:
\* one key per invocation
StagedKey == [name |-> "textract-input", t |-> run]

\* the step stays inside extract_text_from_pdf, at position p with locals l
Goto(p, l) ==
    /\ pc' = p
    /\ ex' = l
    /\ UNCHANGED << text, attempt, result >>

\* the try block is left with value t pending; the finally clause runs next
LeaveTry(t) == Goto("ex_finally", [ex EXCEPT !.ret = t])

\* extract_text_from_pdf returns t
Return(t) ==
    /\ ExtractReturns(t)
    /\ UNCHANGED result

\* an exception leaves extract_text_from_pdf and process_order
Raise ==
    /\ ProcessOrderEnds("raised")
    /\ UNCHANGED << text, attempt, ex >>

\* a direct extraction whose page ceiling is off by one (>= instead of >)
direct_extract_CeilingInclusive ==
    /\ pc = "ex_direct"
    /\ Count("extract")
    /\ IF pdf.layer = "unreadable"
       THEN Goto("ex_validate", ex)
       ELSE IF pdf.page_count >= MaxPages
       THEN Return(EmptyStr)
       ELSE IF DirectText(pdf) # EmptyStr
       THEN Return(DirectText(pdf))
       ELSE Goto("ex_validate", ex)
    /\ UNCHANGED << bucket, Caller, Inputs >>

\* direct extraction with pdfplumber (lines 118-131): "unreadable" is
\* pdfplumber raising, which is caught and leads to the scanned path
direct_extract ==
    /\ pc = "ex_direct"
    /\ Count("extract")
    /\ IF pdf.layer = "unreadable"
       THEN Goto("ex_validate", ex)
       ELSE IF pdf.page_count > MaxPages
       THEN Return(EmptyStr)
       ELSE IF DirectText(pdf) # EmptyStr
       THEN Return(DirectText(pdf))
       ELSE Goto("ex_validate", ex)
    /\ UNCHANGED << bucket, Caller, Inputs >>

\* is_valid_pdf, is_encrypted_pdf and reformat_pdf (lines 141-152);
\* reformat_pdf returns the copy's path or None and only selects the file that
\* is uploaded
validate_and_reformat ==
    /\ pc = "ex_validate"
    /\ Count("validate")
    /\ IF ~is_valid_pdf(pdf) \/ is_encrypted_pdf(pdf)
       THEN Return(EmptyStr)
       ELSE Goto("ex_upload", ex)
    /\ UNCHANGED << bucket, Caller, Inputs >>

\* what s3_client.upload_file can do: succeed, raise a ClientError, or raise
\* another exception (boto3 wraps a failed transfer in S3UploadFailedError)
UploadOutcomes == {"ok", "ClientError", "S3UploadFailedError"}

\* upload_to_s3: the key, None on ClientError; any other exception propagates
upload_to_s3(outcome) ==
    IF outcome = "ok" THEN [returned |-> StagedKey, raised |-> FALSE]
    ELSE IF outcome = "ClientError" THEN [returned |-> NoKey, raised |-> FALSE]
    ELSE [returned |-> NoKey, raised |-> TRUE]

\* lines 155-158: the upload is outside the try block
upload ==
    /\ pc = "ex_upload"
    /\ Count("upload")
    /\ \E outcome \in UploadOutcomes :
         LET call == upload_to_s3(outcome) IN
         IF call.raised
         THEN /\ Raise
              /\ UNCHANGED bucket
         ELSE IF call.returned = NoKey
         THEN /\ Return(EmptyStr)
              /\ UNCHANGED bucket
         ELSE /\ Goto("ex_start", [ex EXCEPT !.s3_key = call.returned])
              /\ bucket' = bucket \cup {call.returned}
    /\ UNCHANGED << Caller, Inputs >>

\* textract.start_document_text_detection (lines 161-167)
start_job ==
    /\ pc = "ex_start"
    /\ Count("start")
    /\ \E started \in BOOLEAN :
         IF started
         THEN Goto("ex_loop", [ex EXCEPT !.elapsed = 0])
         ELSE LeaveTry(EmptyStr)
    /\ UNCHANGED << bucket, Caller, Inputs >>

\* how long one call to the OCR backend takes, in seconds: two values near
\* half the window, so that a poll can return at 595 s (inside the window), at
\* exactly 600 s, or later
Latencies == {max_wait \div 2 - PollSleep, max_wait \div 2}

\* the clock after d more seconds; every reading at or past max_wait behaves
\* alike, so the clock is not advanced beyond it
Advance(e, d) == IF e + d >= max_wait THEN max_wait ELSE e + d

\* one iteration of the polling loop (lines 168-174)
poll ==
    /\ pc = "ex_loop"
    /\ ex.elapsed < max_wait
    /\ calls' = [calls EXCEPT !.poll = 1]
    /\ \E outcome \in {"IN_PROGRESS", "SUCCEEDED", "FAILED", "exception"},
          d \in Latencies :
         IF outcome = "exception"
         THEN Goto("ex_finally", [ex EXCEPT !.ret = EmptyStr, !.elapsed = 0])
         ELSE IF outcome = "IN_PROGRESS"
         THEN Goto("ex_loop", [ex EXCEPT !.status = outcome,
                                         !.elapsed = Advance(@, d + PollSleep)])
         ELSE IF outcome = "FAILED"
         THEN Goto("ex_after", [ex EXCEPT !.status = outcome,
                                          !.elapsed = Advance(@, d)])
         ELSE \E doc \in OcrResults :
                Goto("ex_after", [ex EXCEPT !.status = outcome,
                                            !.elapsed = Advance(@, d),
                                            !.pages = doc])
    /\ UNCHANGED << bucket, Caller, Inputs >>

\* the loop condition `time.time() - start_time < max_wait` fails
loop_exit ==
    /\ pc = "ex_loop"
    /\ ex.elapsed >= max_wait
    /\ Goto("ex_after", ex)
    /\ UNCHANGED << bucket, calls, Caller, Inputs >>

\* after the loop (lines 176-188): timeout, FAILED, or the first page's lines.
\* Line 176 is the last reading of the clock, which is dropped from the state
after_loop ==
    /\ pc = "ex_after"
    /\ IF ex.elapsed >= max_wait
       THEN Goto("ex_finally", [ex EXCEPT !.ret = EmptyStr, !.elapsed = 0])
       ELSE IF ex.status = "FAILED"
       THEN Goto("ex_finally", [ex EXCEPT !.ret = EmptyStr, !.elapsed = 0])
       ELSE Goto("ex_page", [ex EXCEPT !.extracted_text = LineTexts(Head(ex.pages)),
                                       !.pages = Tail(@),
                                       !.elapsed = 0])
    /\ UNCHANGED << bucket, calls, Caller, Inputs >>

\* `while next_token` (lines 189-198): fetch the next page, or join and return
next_page ==
    /\ pc = "ex_page"
    /\ IF ex.pages = << >>
       THEN LeaveTry(JoinNL(ex.extracted_text))
       ELSE \E fetched \in BOOLEAN :
              IF fetched
              THEN Goto("ex_page",
                        [ex EXCEPT !.extracted_text = @ \o LineTexts(Head(ex.pages)),
                                   !.pages = Tail(@)])
              ELSE Goto("ex_finally", [ex EXCEPT !.ret = EmptyStr,
                                                 !.fetch_raised = TRUE])
    /\ UNCHANGED << bucket, calls, Caller, Inputs >>

\* what s3_client.delete_object can do: succeed, raise a ClientError, or raise
\* a BotoCoreError (no connection to the endpoint)
DeleteOutcomes == {"ok", "ClientError", "BotoCoreError"}

\* the finally clause (lines 217-221): only ClientError is caught
delete_raises(outcome) == outcome \notin {"ok", "ClientError"}

finally_delete ==
    /\ pc = "ex_finally"
    /\ Count("delete")
    /\ \E outcome \in DeleteOutcomes :
         /\ bucket' = IF outcome = "ok" THEN bucket \ {ex.s3_key} ELSE bucket
         /\ IF delete_raises(outcome)
            THEN Raise
            ELSE Return(ex.ret)
    /\ UNCHANGED << Caller, Inputs >>

(***************************************************************************)
(* The listing scraper (scrape_historical_orders_ny.py).                   *)
(* A paragraph's text is a sequence of tokens; the page is read paragraph  *)
(* by paragraph and segment by segment (the text split on ';').            *)
(***************************************************************************)
\* total number of paragraphs, of segments, and of PDF links per paragraph
MaxParas == 2
MaxSegments == 2
MaxLinks == 2

SentinelTitle == "No title available"
SRC_VALUE == "governor.ny.gov"

\* tokens of a segment
EO == [t |-> "eo", v |-> "Executive Order No."]
AndTok == [t |-> "and", v |-> " and "]
Num(n) == [t |-> "num", v |-> n]
Issued(d) == [t |-> "issued", v |-> d]
TitleTok(x) == [t |-> "title", v |-> x]
Other == [t |-> "other", v |-> "see the archive"]

\* a date string as it stands in the page, "<month><gap spaces><day>, <year>":
\* "January 1, 2020", "Febuary 2, 2020"; the year is written with four digits
GoodDate == [month |-> "January", gap |-> 1, day |-> 1, year |-> 2020]
BadDate == [month |-> "Febuary", gap |-> 1, day |-> 2, year |-> 2020]
NoDate == [month |-> None, gap |-> 0, day |-> 0, year |-> 0]

\* the date strings parse_date is tried on
Dates ==
    [month : {"January", "February", "April", "Febuary"},
     gap : {0, 1, 2},
     day : {0, 1, 29, 30, 31, 32},
     year : {0, 2019, 2020}]

MonthNames ==
    << "January", "February", "March", "April", "May", "June", "July",
       "August", "September", "October", "November", "December" >>

IsMonthName(w) == \E m \in DOMAIN MonthNames : MonthNames[m] = w

MonthNumber(w) == CHOOSE m \in DOMAIN MonthNames : MonthNames[m] = w

\* the directives %B, %d and %Y of strptime match the string: a full month
\* name, white space (a blank of the format stands for \s+), a day written
\* 1..31, a comma, white space, four digits
FormatMatches(d) ==
    /\ IsMonthName(d.month)
    /\ d.gap >= 1
    /\ d.day \in 1..31
    /\ d.year \in 0..9999

IsLeap(y) == y % 4 = 0 /\ (y % 100 # 0 \/ y % 400 = 0)

\* days of month m in year y
DaysIn(m, y) ==
    IF m = 2 THEN (IF IsLeap(y) THEN 29 ELSE 28)
    ELSE IF m \in {4, 6, 9, 11} THEN 30
    ELSE 31

\* datetime(year, month, day) raises ValueError outside the calendar
IsCalendarDate(y, m, dd) == y >= 1 /\ dd >= 1 /\ dd <= DaysIn(m, y)

DigitChars == << "0", "1", "2", "3", "4", "5", "6", "7", "8", "9" >>

RECURSIVE ZeroPad(_, _)
\* n written with w digits
ZeroPad(n, w) ==
    IF w = 0 THEN << >>
    ELSE ZeroPad(n \div 10, w - 1) \o << DigitChars[(n % 10) + 1] >>

\* strftime("%Y-%m-%d")
strftime(y, m, dd) ==
    [iso |-> ZeroPad(y, 4) \o << "-" >> \o ZeroPad(m, 2) \o << "-" >> \o ZeroPad(dd, 2)]

\* a parse_date that takes every day 1..31 of every month for a date
parse_date_AnyDay(d) ==
    IF FormatMatches(d) /\ d.year >= 1
    THEN strftime(d.year, MonthNumber(d.month), d.day)
    ELSE d

\* parse_date: strptime(date_str, "%B %d, %Y").strftime("%Y-%m-%d"), the
\* string itself on ValueError (no match, or no such calendar date)
parse_date(d) ==
    IF FormatMatches(d) /\ IsCalendarDate(d.year, MonthNumber(d.month), d.day)
    THEN strftime(d.year, MonthNumber(d.month), d.day)
    ELSE d

\* the segments a paragraph is made of
SegNewTitled == << EO, Num(<<"5">>), Issued(GoodDate), TitleTok("Test Title") >>
SegNewBare == << EO, Num(<<"6">>), Issued(BadDate) >>
SegCont == << Num(<<"5", ".", "1">>), Issued(GoodDate) >>
SegOther == << Other >>
SegEOOther == << EO, Other >>
SegContAndNew == SegCont \o << AndTok >> \o SegNewBare
SegNewAndNew == SegNewTitled \o << AndTok >> \o SegNewBare
SegEmpty == << >>

Segments ==
    { SegNewTitled, SegNewBare, SegCont, SegOther, SegEOOther, SegContAndNew,
      SegNewAndNew, SegEmpty }

\* the k-th PDF link of paragraph p: its href; the odd links of a paragraph
\* are relative, the even ones absolute
Href(p, k) == [absolute |-> (k % 2 = 0), para |-> p, k |-> k]

\* if not pdf_url.startswith('http'): prefix the site
AbsoluteUrl(href) ==
    [site |-> IF href.absolute THEN "http" ELSE "https://www.governor.ny.gov",
     para |-> href.para, k |-> href.k]

RECURSIVE ReplaceDots(_)
\* order_num.replace(".", "_")
ReplaceDots(n) ==
    IF n = << >> THEN << >>
    ELSE << IF n[1] = "." THEN "_" ELSE n[1] >> \o ReplaceDots(Tail(n))

\* f'NYORDER{order_num.replace(".", "_")}'
OrderIdOf(n) == << "NYORDER" >> \o ReplaceDots(n)

\* " and Executive Order No." in seg: the positions of " and " before the phrase
AndPositions(seg) ==
    { i \in 1..(Len(seg) - 1) : seg[i].t = "and" /\ seg[i + 1].t = "eo" }

ContainsAnd(seg) == AndPositions(seg) # {}

Min(S) == CHOOSE x \in S : \A y \in S : x <= y

RECURSIVE SplitAnd(_)
\* seg.split(" and Executive Order No."), "Executive Order No." put back in
\* front of every part but the first (lines 101-107)
SplitAnd(seg) ==
    IF ~ContainsAnd(seg) THEN << seg >>
    ELSE LET i == Min(AndPositions(seg)) IN
         << SubSeq(seg, 1, i - 1) >> \o SplitAnd(SubSeq(seg, i + 1, Len(seg)))

\* seg.startswith('Executive Order No.')
StartsWithEO(seg) == seg # << >> /\ seg[1].t = "eo"

\* the new-order pattern (lines 112-116, 160-164)
MatchNew(seg) ==
    Len(seg) >= 3 /\ seg[1].t = "eo" /\ seg[2].t = "num" /\ seg[3].t = "issued"

\* match.group(3) if match.group(3) else "No title available"
TitleOf(seg) ==
    IF Len(seg) >= 4 /\ seg[4].t = "title" /\ seg[4].v # ""
    THEN seg[4].v ELSE SentinelTitle

\* the continuation pattern (lines 207-211)
MatchCont(seg) == Len(seg) >= 2 /\ seg[1].t = "num" /\ seg[2].t = "issued"

\* a continuation's title that ignores the orders accepted before it
InheritedTitle_Sentinel(orders) == SentinelTitle

\* orders_data[-1]['title'] if orders_data else "No title available"
InheritedTitle(orders) ==
    IF orders # << >> THEN orders[Len(orders)].title ELSE SentinelTitle

\* an order that takes a link without moving link_index on
Accept_SameLink(st, links, num, date, title) ==
    IF st.link_index >= Len(links)
    THEN [st EXCEPT !.skipped = @ + 1]
    ELSE [st EXCEPT
            !.orders_data = Append(@,
                [order_id |-> OrderIdOf(num), order_num |-> num, title |-> title,
                 signed_date |-> date,
                 pdf_url |-> AbsoluteUrl(links[st.link_index + 1]),
                 src |-> SRC_VALUE]),
            !.processed = @ + 1]

\* a parsed order takes the next unused link, or is dropped and counted when
\* none is left (lines 128-155, 176-203, 223-250)
Accept(st, links, num, date, title) ==
    IF st.link_index >= Len(links)
    THEN [st EXCEPT !.skipped = @ + 1]
    ELSE [st EXCEPT
            !.orders_data = Append(@,
                [order_id |-> OrderIdOf(num), order_num |-> num, title |-> title,
                 signed_date |-> date,
                 pdf_url |-> AbsoluteUrl(links[st.link_index + 1]),
                 src |-> SRC_VALUE]),
            !.link_index = @ + 1,
            !.processed = @ + 1]

\* a (sub-)segment that starts with 'Executive Order No.'
NewOrder(st, links, seg) ==
    IF ~MatchNew(seg) THEN st
    ELSE Accept(st, links, seg[2].v, parse_date(seg[3].v), TitleOf(seg))

\* a segment naming only a number and a date
ContinuationOrder(st, links, seg) ==
    IF ~MatchCont(seg) THEN st
    ELSE Accept(st, links, seg[1].v, parse_date(seg[2].v),
                InheritedTitle(st.orders_data))

RECURSIVE SubSegments(_, _, _)
\* for sub_seg in all_segments (lines 109-155): only the sub-segments that
\* start with 'Executive Order No.' are looked at
SubSegments(st, links, subs) ==
    IF subs = << >> THEN st
    ELSE SubSegments(IF StartsWithEO(subs[1]) THEN NewOrder(st, links, subs[1]) ELSE st,
                     links, Tail(subs))

\* the body of `for seg in segments` (lines 94-250)
ProcessSegment(st, links, seg) ==
    IF seg = << >> THEN st
    ELSE IF ContainsAnd(seg) THEN SubSegments(st, links, SplitAnd(seg))
    ELSE IF StartsWithEO(seg) THEN NewOrder(st, links, seg)
    ELSE ContinuationOrder(st, links, seg)

VARIABLES
    spc,          \* position of the scrape invocation
    s_env_bucket, \* os.environ.get('S3_BUCKET_NAME') is set
    s_status,     \* the scrape handler's statusCode (0: none yet)
    page,         \* the paragraphs read so far: links and segments
    pdf_links,    \* pdf_links of the current paragraph
    snapshot,     \* the put of the debug HTML snapshot: "none" (not issued),
                  \* "ok", "failed"
    scrape        \* orders_data, link_index, total_links_processed (processed),
                  \* total_links_skipped (skipped)

scrape_vars == << spc, s_env_bucket, s_status, page, pdf_links, snapshot, scrape >>

InitScrape ==
    /\ spc = "idle"
    /\ s_env_bucket = FALSE
    /\ s_status = 0
    /\ page = << >>
    /\ pdf_links = << >>
    /\ snapshot = "none"
    /\ scrape = [orders_data |-> << >>, link_index |-> 0, processed |-> 0, skipped |-> 0]

SegmentsRead ==
    IF page = << >> THEN 0
    ELSE LET n[i \in 0..Len(page)] == IF i = 0 THEN 0 ELSE n[i - 1] + Len(page[i].segs)
         IN n[Len(page)]

\* the scrape handler answers
ScrapeRespond(code) ==
    /\ s_status' = code
    /\ spc' = "done"

\* lambda_handler (lines 261-267) and the head of extract_historical_orders
\* (lines 39-58): the environment, the fetch, the debug snapshot, the sections.
\* put_object is inside the try block whose only handler is for
\* RequestException (and re-raises): a ClientError of the put leaves
\* extract_historical_orders and reaches `except Exception` of the handler
ScrapeStart ==
    /\ spc = "idle"
    /\ \E bucket_set \in BOOLEAN, fetched \in BOOLEAN, put_ok \in BOOLEAN,
          sections \in BOOLEAN :
         /\ s_env_bucket' = bucket_set
         /\ snapshot' = IF bucket_set /\ fetched
                        THEN (IF put_ok THEN "ok" ELSE "failed")
                        ELSE "none"
         /\ IF ~bucket_set THEN ScrapeRespond(500)
            ELSE IF ~fetched THEN ScrapeRespond(500)
            ELSE IF ~put_ok THEN ScrapeRespond(500)
            ELSE IF ~sections THEN ScrapeRespond(200)
            ELSE /\ spc' = "parse"
                 /\ UNCHANGED s_status
    /\ UNCHANGED << page, pdf_links, scrape >>

\* `for p in paragraphs` (lines 82-92): a paragraph without PDF links is
\* counted as skipped
NextParagraph ==
    /\ spc = "parse"
    /\ Len(page) < MaxParas
    /\ \E n \in 0..MaxLinks :
         LET links == [k \in 1..n |-> Href(Len(page) + 1, k)] IN
         /\ page' = Append(page, [links |-> links, segs |-> << >>])
         /\ pdf_links' = links
         /\ scrape' = IF n = 0
                      THEN [scrape EXCEPT !.skipped = @ + 1]
                      ELSE [scrape EXCEPT !.link_index = 0]
    /\ UNCHANGED << spc, s_env_bucket, s_status, snapshot >>

\* `for seg in segments` (lines 94-250): the next segment of the paragraph
NextSegment ==
    /\ spc = "parse"
    /\ pdf_links # << >>
    /\ SegmentsRead < MaxSegments
    /\ \E seg \in Segments :
         /\ page' = [page EXCEPT ![Len(page)].segs = Append(@, seg)]
         /\ scrape' = ProcessSegment(scrape, pdf_links, seg)
    /\ UNCHANGED << spc, s_env_bucket, s_status, pdf_links, snapshot >>

\* the page is read (lines 252-254); lambda_handler exports (lines 268-289)
ScrapeFinish ==
    /\ spc = "parse"
    /\ IF scrape.orders_data = << >>
       THEN ScrapeRespond(200)
       ELSE \E saved \in BOOLEAN : ScrapeRespond(IF saved THEN 200 ELSE 500)
    /\ UNCHANGED << s_env_bucket, page, pdf_links, snapshot, scrape >>

(***************************************************************************)
(* parse_date on its own: a date string goes in, the normalised one out    *)
(***************************************************************************)
VARIABLES
    date_in,  \* the argument of parse_date
    date_out  \* what parse_date returned (NoDate: not called yet)

date_vars == << date_in, date_out >>

(***************************************************************************)
(* Concurrent instances of process_order on the shared store.  Every       *)
(* database call is one transaction; the transactions of different         *)
(* instances interleave statement by statement, and a statement sees the   *)
(* rows committed before it (the engine is created with the database's     *)
(* default isolation).                                                      *)
(***************************************************************************)
VARIABLES
    inst  \* per instance: pc, its order (order_id, title), the text it
          \* extracted, attempt (of db_upsert), seen (what its SELECT found),
          \* meta and wrote (its metadata upsert / text transaction
          \* committed), overlapped (its SELECT ran while another instance on
          \* the same order_id was between its SELECT and its write)

conc_vars == << inst >>

vars == << order_vars, scrape_vars, date_vars, conc_vars >>

\* what a step of the per-order pipeline, and of the scraper, leaves alone
OutsideOrder == << scrape_vars, date_vars, conc_vars >>
OutsideScrape == << order_vars, date_vars, conc_vars >>

\* signed_date = parse_date(match.group(2))
CallParseDate ==
    /\ date_out = NoDate
    /\ date_out' = parse_date(date_in)
    /\ UNCHANGED << date_in, order_vars, scrape_vars, conc_vars >>

\* the instances running at the same time
Instances == {"a", "b"}

Instance(p, id, title, t) ==
    [pc |-> p, order_id |-> id, title |-> title, text |-> t, attempt |-> 1,
     seen |-> FALSE, meta |-> FALSE, wrote |-> FALSE, overlapped |-> FALSE]

\* no instance is running
NoInstances == [i \in Instances |-> Instance("done", None, None, EmptyStr)]

\* the per-order pipeline's own locals, which the instances do not use
OrderLocals ==
    << pc, run, env_bucket, event, engine, statusCode, result, attempt, pdf,
       bucket, ex, text, calls, done, prev >>

\* what a step of an instance leaves alone besides the tables
OutsideTables == << OrderLocals, scrape_vars, date_vars >>

\* an instance's order_entry and text_entry
EntryOf(r) == [order_id |-> r.order_id, title |-> r.title]
TextEntryOf(r) == [order_id |-> r.order_id, text |-> r.text]

\* process_order, lines 246-252, in instance i: one attempt of db_upsert
c_upsert(i) ==
    /\ inst[i].pc = "upsert"
    /\ \E stmt_ok \in BOOLEAN :
         LET call == db_upsert("engine", executive_orders, EntryOf(inst[i]), stmt_ok,
                               inst[i].attempt) IN
         /\ executive_orders' = call.table
         /\ inst' = [inst EXCEPT
                ![i].meta = call.committed,
                ![i].attempt = IF call.retry THEN @ + 1 ELSE @,
                ![i].pc = IF call.retry THEN "upsert"
                          ELSE IF call.raised THEN "done"
                          ELSE "extract"]
    /\ UNCHANGED << order_texts, OutsideTables >>

\* lines 254-259 in instance i: the download fails (return False) or the
\* text is extracted; neither touches the store
c_extract(i) ==
    /\ inst[i].pc = "extract"
    /\ \E downloaded \in BOOLEAN :
         inst' = [inst EXCEPT ![i].pc = IF downloaded THEN "select" ELSE "done"]
    /\ UNCHANGED << executive_orders, order_texts, OutsideTables >>

\* db_insert_or_update in instance i, lines 135-140: the transaction begins
\* and SELECT 1 ... WHERE order_id = :value sees the committed rows
c_select(i) ==
    /\ inst[i].pc = "select"
    /\ \E stmt_ok \in BOOLEAN :
         inst' = [inst EXCEPT
            ![i].seen = stmt_ok /\ HasRow(order_texts, inst[i].order_id),
            ![i].overlapped =
                stmt_ok /\ \E j \in Instances \ {i} :
                              /\ inst[j].pc = "write"
                              /\ inst[j].order_id = inst[i].order_id,
            ![i].pc = IF stmt_ok THEN "write" ELSE "done"]
    /\ UNCHANGED << executive_orders, order_texts, OutsideTables >>

\* lines 142-154: UPDATE ... WHERE order_id = :value when the SELECT found a
\* row, INSERT otherwise
WriteStatement(table, data, found) ==
    IF found
    THEN [k \in DOMAIN table |->
            IF table[k].order_id = data.order_id THEN data ELSE table[k]]
    ELSE Append(table, data)

\* db_insert_or_update in instance i, lines 142-163: the write and the commit
c_write(i) ==
    /\ inst[i].pc = "write"
    /\ \E stmt_ok \in BOOLEAN :
         /\ order_texts' = IF stmt_ok
                           THEN WriteStatement(order_texts, TextEntryOf(inst[i]),
                                               inst[i].seen)
                           ELSE order_texts
         /\ inst' = [inst EXCEPT ![i].wrote = stmt_ok, ![i].pc = "done"]
    /\ UNCHANGED << executive_orders, OutsideTables >>

(***************************************************************************)
(* Specifications                                                          *)
(***************************************************************************)
Init ==
    /\ InitOrder
    /\ InitScrape
    /\ date_in = GoodDate
    /\ date_out = NoDate
    /\ inst = NoInstances

InitDate ==
    /\ InitOrder
    /\ InitScrape
    /\ date_in \in Dates
    /\ date_out = NoDate
    /\ inst = NoInstances

\* two instances start, each on an order of its own choosing
InitConcurrent ==
    /\ InitOrder
    /\ InitScrape
    /\ date_in = GoodDate
    /\ date_out = NoDate
    /\ inst \in [Instances -> { Instance("upsert", id, title, t) :
                                  id \in OrderIds, title \in Titles,
                                  t \in {EmptyStr, <<"x">>} }]

NextConcurrent ==
    \E i \in Instances :
        \/ c_upsert(i)
        \/ c_extract(i)
        \/ c_select(i)
        \/ c_write(i)

NextDate == CallParseDate

NextOrder ==
    \/ Invoke /\ UNCHANGED OutsideOrder
    \/ HandlerEntry /\ UNCHANGED OutsideOrder
    \/ upsert_metadata /\ UNCHANGED OutsideOrder
    \/ download_pdf /\ UNCHANGED OutsideOrder
    \/ direct_extract /\ UNCHANGED OutsideOrder
    \/ validate_and_reformat /\ UNCHANGED OutsideOrder
    \/ upload /\ UNCHANGED OutsideOrder
    \/ start_job /\ UNCHANGED OutsideOrder
    \/ poll /\ UNCHANGED OutsideOrder
    \/ loop_exit /\ UNCHANGED OutsideOrder
    \/ after_loop /\ UNCHANGED OutsideOrder
    \/ next_page /\ UNCHANGED OutsideOrder
    \/ finally_delete /\ UNCHANGED OutsideOrder
    \/ write_text /\ UNCHANGED OutsideOrder
    \/ HandlerResult /\ UNCHANGED OutsideOrder

NextScrape ==
    \/ ScrapeStart /\ UNCHANGED OutsideScrape
    \/ NextParagraph /\ UNCHANGED OutsideScrape
    \/ NextSegment /\ UNCHANGED OutsideScrape
    \/ ScrapeFinish /\ UNCHANGED OutsideScrape

\* the per-order pipeline
Spec == Init /\ [][NextOrder]_vars

\* the listing scraper
SpecScrape == Init /\ [][NextScrape]_vars

\* parse_date applied to one date string
SpecDate == InitDate /\ [][NextDate]_vars

\* two instances of process_order on the shared store
SpecConcurrent == InitConcurrent /\ [][NextConcurrent]_vars

(***************************************************************************)
(* Properties of the per-order pipeline                                    *)
(***************************************************************************)
\* the rows of a table that carry this order_id
RowsFor(table, id) == { table[i] : i \in { j \in DOMAIN table : table[j].order_id = id } }

\* process_order has returned (or raised) and the handler has not yet answered
AtReturn == pc = "h_result"

\* C1: process_order returns True only when the order was fully processed:
\* the metadata row and the text row of order_id were both persisted by this
\* call; a failed stage makes it return False.
C1_TrueOnlyWhenFullyProcessed ==
    (AtReturn /\ result = "True") =>
        /\ done.meta
        /\ done.text
        /\ HasRow(executive_orders, event.order_id)
        /\ HasRow(order_texts, event.order_id)

\* C2: when the same descriptor is processed twice in sequence and both runs
\* commit both rows, the store holds exactly one metadata row and exactly one
\* text row for the order_id, with the values of the later run.
C2_SecondRunOverwrites ==
    (AtReturn /\ prev = event /\ done.meta /\ done.text) =>
        /\ RowCount(executive_orders, event.order_id) = 1
        /\ RowCount(order_texts, event.order_id) = 1
        /\ RowsFor(executive_orders, event.order_id) = {OrderEntry}
        /\ RowsFor(order_texts, event.order_id) = {TextEntry}

\* C2 witness: the second of two runs on the same descriptor has committed
\* both rows, the first having done so before it.
C2_Witness ==
    /\ AtReturn
    /\ run = 2
    /\ prev = event
    /\ done.meta
    /\ done.text
    /\ result = "True"

\* C3: extract_text_from_pdf never raises to its caller.
C3_ExtractNeverRaises == result # "raised"

\* C4: once the staged PDF was uploaded, extract_text_from_pdf has issued
\* exactly one delete when it is left, and it is left by returning, not by an
\* exception of the delete.
C4_OneDeleteAndNoRaise ==
    (pc \in {"po_text", "h_result"} /\ calls.start >= 1) =>
        /\ calls.delete = 1
        /\ result # "raised"

\* C10: a failed metadata upsert returns False before any download, extraction
\* or text write; a failed download returns False with the metadata row stored
\* and no extraction or text write; and an extraction that returned, also with
\* the empty string, is followed by one text write that stores that text.
C10_StageFailures ==
    /\ (AtReturn /\ ~done.meta) =>
          /\ result = "False"
          /\ calls.download = 0
          /\ calls.extract = 0
          /\ calls.textwrite = 0
    /\ (AtReturn /\ calls.download = 1 /\ pdf = NoPdf) =>
          /\ result = "False"
          /\ done.meta
          /\ RowsFor(executive_orders, event.order_id) = {OrderEntry}
          /\ calls.extract = 0
          /\ calls.textwrite = 0
          /\ ~done.text
    /\ (AtReturn /\ calls.extract = 1 /\ result # "raised") =>
          /\ calls.textwrite = 1
          /\ done.text => RowsFor(order_texts, event.order_id) = {TextEntry}
          /\ (done.text /\ text = EmptyStr) =>
                \A r \in RowsFor(order_texts, event.order_id) : r.text = EmptyStr

\* C10 witness: extraction returned the empty string and the text row holding
\* the empty text was written.
C10_Witness ==
    /\ AtReturn
    /\ calls.extract = 1
    /\ text = EmptyStr
    /\ done.text
    /\ [order_id |-> event.order_id, text |-> EmptyStr] \in RowsFor(order_texts, event.order_id)


\* C11: a failed text-row write is attempted again, at most max_retries times
\* in all; the loop stops at the first attempt that commits, and when every
\* attempt failed process_order returns False without raising.
C11_TextWriteRetried ==
    (AtReturn /\ calls.textwrite >= 1) =>
        /\ calls.textwrite <= max_retries
        /\ result # "raised"
        /\ done.text => result = "True"
        /\ ~done.text => (calls.textwrite = max_retries /\ result = "False")


\* extract_text_from_pdf has returned (or raised) in this invocation
Extracted == pc \in {"po_text", "h_result"} /\ calls.extract = 1

\* nothing of the scanned path has run: no validation or reformat, no upload,
\* no OCR job, no poll, no delete, and nothing is staged in the bucket
NoScannedPath ==
    /\ calls.validate = 0
    /\ calls.upload = 0
    /\ calls.start = 0
    /\ calls.poll = 0
    /\ calls.delete = 0
    /\ StagedKey \notin bucket

\* C12: when pdfplumber opens a PDF of at most 3000 pages and finds non-empty
\* text, extract_text_from_pdf returns that text and runs nothing of the
\* scanned path; when it counts more than 3000 pages the function returns the
\* empty string, again with nothing of the scanned path.
C12_DirectTextSkipsOcr ==
    (Extracted /\ pdf.layer # "unreadable") =>
        /\ (pdf.page_count <= MaxPages /\ DirectText(pdf) # EmptyStr) =>
              /\ text = DirectText(pdf)
              /\ result # "raised"
              /\ NoScannedPath
        /\ (pdf.page_count > MaxPages) =>
              /\ text = EmptyStr
              /\ result # "raised"
              /\ NoScannedPath

\* C12 witness: a PDF of exactly 3000 pages with a text layer was extracted
\* directly.
C12_Witness ==
    /\ pc = "po_text"
    /\ calls.extract = 1
    /\ pdf.page_count = MaxPages
    /\ pdf.layer = "text"
    /\ text = <<"x">>
    /\ NoScannedPath


\* the original statement of C13: every encrypted PDF yields the empty string,
\* is not uploaded and starts no OCR job, whatever direct extraction produced.
C13_EncryptedAlwaysEmpty ==
    (Extracted /\ pdf.encrypted) =>
        /\ text = EmptyStr
        /\ calls.upload = 0
        /\ calls.start = 0

\* C13 (amended): an encrypted PDF is never uploaded and starts no OCR job;
\* extract_text_from_pdf returns the empty string for it unless pdfplumber read
\* non-empty text from at most 3000 pages, in which case that text is returned.
C13_EncryptedNeverOcr ==
    (Extracted /\ pdf.encrypted) =>
        /\ calls.upload = 0
        /\ calls.start = 0
        /\ StagedKey \notin bucket
        /\ result # "raised"
        /\ text = IF /\ pdf.layer # "unreadable"
                     /\ pdf.page_count <= MaxPages
                     /\ DirectText(pdf) # EmptyStr
                  THEN DirectText(pdf)
                  ELSE EmptyStr

\* C13 witness: an encrypted PDF without readable text was rejected by the
\* validation and the empty string returned.
C13_Witness ==
    /\ pc = "po_text"
    /\ calls.extract = 1
    /\ pdf.encrypted
    /\ pdf.layer = "blank"
    /\ calls.validate = 1
    /\ calls.upload = 0
    /\ text = EmptyStr


RECURSIVE AllLines(_)
\* the texts of the LINE blocks of these result pages, in page order
AllLines(pages) ==
    IF pages = << >> THEN << >>
    ELSE LineTexts(Head(pages)) \o AllLines(Tail(pages))

\* C17: whenever a status poll returned SUCCEEDED (and no later call for a
\* result page raised), extract_text_from_pdf returns the newline-joined LINE
\* texts of all result pages, however much time had elapsed when the poll
\* returned.
C17_SucceededYieldsText ==
    (pc = "ex_finally" /\ ex.status = "SUCCEEDED" /\ ~ex.fetch_raised) =>
        /\ ex.ret = JoinNL(ex.extracted_text \o AllLines(ex.pages))
        /\ ex.ret # EmptyStr

\* C19: a text row is written only after the metadata upsert of the same
\* order_id committed; the handler answers 200 only after process_order
\* returned True; and the stages run in the order metadata upsert, download,
\* extraction, text-row write.
C19_StagesInOrder ==
    /\ done.text => done.meta
    /\ \A id \in OrderIds : HasRow(order_texts, id) => HasRow(executive_orders, id)
    /\ (statusCode = 200) => (pc = "idle" /\ result = "True")
    /\ (calls.download >= 1) => done.meta
    /\ (calls.extract >= 1) => (calls.download = 1 /\ pdf # NoPdf)
    /\ (calls.textwrite >= 1) => (calls.extract = 1 /\ pc = "h_result")
    /\ (pc \in {"po_download", "ex_direct", "po_text"}) => ~done.text

\* C19 witness: the handler answered 200 after both rows of the order were
\* written.
C19_Witness ==
    /\ pc = "idle"
    /\ statusCode = 200
    /\ result = "True"
    /\ done.meta
    /\ done.text
    /\ HasRow(executive_orders, event.order_id)
    /\ HasRow(order_texts, event.order_id)

(***************************************************************************)
(* Properties of the listing scraper                                       *)
(***************************************************************************)
\* this step reads one more segment of the current paragraph
SegmentStep == Len(page') = Len(page) /\ page' # page

\* the segment this step reads
ThisSeg == LET segs == page'[Len(page')].segs IN segs[Len(segs)]

\* the descriptors that hold a link of paragraph p, in the order emitted
DescriptorsOf(p) ==
    LET FromP(d) == d.pdf_url.para = p IN SelectSeq(scrape.orders_data, FromP)

\* the orders the scraper parses out of a segment
ParsedOrders(seg) ==
    IF seg = << >> THEN 0
    ELSE IF ContainsAnd(seg)
    THEN LET subs == SplitAnd(seg) IN
         Cardinality({ i \in DOMAIN subs : StartsWithEO(subs[i]) /\ MatchNew(subs[i]) })
    ELSE IF StartsWithEO(seg) THEN (IF MatchNew(seg) THEN 1 ELSE 0)
    ELSE (IF MatchCont(seg) THEN 1 ELSE 0)

\* the k-th descriptor of every paragraph holds the paragraph's k-th link
LinksPaired ==
    \A p \in DOMAIN page :
        LET ds == DescriptorsOf(p) IN
        /\ Len(ds) <= Len(page[p].links)
        /\ \A k \in DOMAIN ds : ds[k].pdf_url = AbsoluteUrl(page[p].links[k])

\* every descriptor holds a link of a paragraph of the page
LinksExist ==
    \A i \in DOMAIN scrape.orders_data :
        LET u == scrape.orders_data[i].pdf_url IN
        /\ u.para \in DOMAIN page
        /\ u.k \in DOMAIN page[u.para].links

\* of the orders parsed out of a segment, as many are emitted as links are
\* left, and every other one is dropped and counted as skipped
DropWhenExhausted ==
    SegmentStep =>
        LET n == ParsedOrders(ThisSeg)
            left == Len(pdf_links) - scrape.link_index
            taken == IF n <= left THEN n ELSE left
        IN /\ Len(scrape'.orders_data) = Len(scrape.orders_data) + taken
           /\ scrape'.link_index = scrape.link_index + taken
           /\ (n > 0) => scrape'.skipped = scrape.skipped + (n - taken)

\* C5: within a paragraph the k-th accepted order receives the k-th PDF link;
\* an order parsed after the links are exhausted is dropped and counted as
\* skipped; every descriptor holds a link and a paragraph yields no more
\* descriptors than it has links.
C5_PositionalLinks == [](LinksPaired /\ LinksExist) /\ [][DropWhenExhausted]_vars

\* C5 witness: a paragraph with one link and two parsed orders: the first
\* holds the link, the second was dropped and counted.
C5_Witness ==
    /\ page = << [links |-> << Href(1, 1) >>, segs |-> << SegNewTitled, SegCont >>] >>
    /\ Len(scrape.orders_data) = 1
    /\ scrape.orders_data[1].pdf_url = AbsoluteUrl(Href(1, 1))
    /\ scrape.skipped = 1

\* a segment that matches neither the new-order nor the continuation pattern
MatchesNeither(seg) == seg # << >> /\ ~MatchNew(seg) /\ ~MatchCont(seg)

\* C6: a segment that matches neither pattern emits no record, increments the
\* skip counter by exactly one and consumes no PDF link.
C6_UnmatchedSegmentCounted ==
    [][(SegmentStep /\ MatchesNeither(ThisSeg)) =>
          /\ scrape'.orders_data = scrape.orders_data
          /\ scrape'.skipped = scrape.skipped + 1
          /\ scrape'.link_index = scrape.link_index]_vars

\* a continuation segment: a number and a date, not introduced by
\* 'Executive Order No.'
IsContinuation(seg) == ~ContainsAnd(seg) /\ ~StartsWithEO(seg) /\ MatchCont(seg)

\* an emitted continuation carries the title of the order accepted last
ContinuationInherits ==
    (SegmentStep /\ IsContinuation(ThisSeg) /\ scrape.link_index < Len(pdf_links)) =>
        LET before == scrape.orders_data
            after == scrape'.orders_data
        IN /\ Len(after) = Len(before) + 1
           /\ after[Len(after)].order_num = ThisSeg[1].v
           /\ after[Len(after)].title =
                 IF before = << >> THEN SentinelTitle ELSE before[Len(before)].title

\* the paragraph of the example: two links and the text "Executive Order No. 5,
\* issued January 1, 2020 (Test Title); 5.1, issued ..."
IsExample(para) == Len(para.links) = 2 /\ para.segs = << SegNewTitled, SegCont >>

ExampleYieldsTwo ==
    \A p \in DOMAIN page :
        IsExample(page[p]) =>
            LET ds == DescriptorsOf(p) IN
            /\ Len(ds) = 2
            /\ ds[1].title = "Test Title" /\ ds[2].title = "Test Title"
            /\ ds[1].order_num = <<"5">> /\ ds[2].order_num = <<"5", ".", "1">>
            /\ ds[1].pdf_url = AbsoluteUrl(page[p].links[1])
            /\ ds[2].pdf_url = AbsoluteUrl(page[p].links[2])

\* C7: a continuation segment is emitted with the title of the most recently
\* accepted order of the run, or the sentinel when there is none; the example
\* paragraph yields two records titled 'Test Title' holding the first and the
\* second link.
C7_ContinuationTitle == []ExampleYieldsTwo /\ [][ContinuationInherits]_vars

\* C7 witness: the example paragraph was read and its two records emitted.
C7_Witness ==
    /\ Len(page) = 1
    /\ IsExample(page[1])
    /\ Len(scrape.orders_data) = 2
    /\ scrape.orders_data[2].title = "Test Title"

\* C8: no two descriptors of one scrape share an order_id.
C8_UniqueOrderIds ==
    \A i, j \in DOMAIN scrape.orders_data :
        i # j => scrape.orders_data[i].order_id # scrape.orders_data[j].order_id

\* C9: both handlers answer 400 to bad input (no S3_BUCKET_NAME, or no
\* order_id / order_data in the event) before any fetch, download or write,
\* and 200 only when nothing failed.
C9_StatusCodes ==
    /\ (spc = "done" /\ ~s_env_bucket) => (s_status = 400 /\ page = << >>)
    /\ (spc = "done" /\ s_status = 200) => s_env_bucket
    /\ (pc = "idle" /\ run > 0 /\ (~env_bucket \/ event.order_id = None \/ event.order_data = None))
          => (statusCode = 400 /\ ~done.meta /\ ~done.text)
    /\ (pc = "idle" /\ statusCode = 200) => result = "True"

\* extract_historical_orders was left by an exception: the handler answered 500
\* although the bucket is configured and no descriptor was handed to the export
ExtractionRaised ==
    /\ spc = "done"
    /\ s_env_bucket
    /\ s_status = 500
    /\ scrape.orders_data = << >>

\* C14: a failed put of the debug HTML snapshot is not fatal: after a
\* successful fetch the page is still parsed and extract_historical_orders
\* returns its descriptors.
C14_SnapshotNonFatal == (snapshot = "failed") => ~ExtractionRaised


\* a sub-segment the per-order rule parses: a new order when it starts with
\* 'Executive Order No.', a continuation otherwise
SubSegmentParses(sub) ==
    IF StartsWithEO(sub) THEN MatchNew(sub) ELSE MatchCont(sub)

\* the order number a parsed sub-segment names
SubSegmentNumber(sub) == IF StartsWithEO(sub) THEN sub[2].v ELSE sub[1].v

\* the order numbers the per-order rule finds in the sub-segments, in order
RECURSIVE NumbersIn(_)
NumbersIn(subs) ==
    IF subs = << >> THEN << >>
    ELSE (IF SubSegmentParses(subs[1]) THEN << SubSegmentNumber(subs[1]) >> ELSE << >>)
         \o NumbersIn(Tail(subs))

\* C16: the per-order rule is applied to every sub-segment of a segment split
\* on ' and Executive Order No.': each sub-segment that parses, a continuation
\* in first place included, is emitted in order with the next unused link.
C16_EverySubSegmentParsed ==
    [][(SegmentStep /\ ContainsAnd(ThisSeg)) =>
          LET nums == NumbersIn(SplitAnd(ThisSeg))
              left == Len(pdf_links) - scrape.link_index
              taken == IF Len(nums) <= left THEN Len(nums) ELSE left
              before == Len(scrape.orders_data)
          IN /\ Len(scrape'.orders_data) = before + taken
             /\ \A k \in 1..taken :
                   /\ scrape'.orders_data[before + k].order_num = nums[k]
                   /\ scrape'.orders_data[before + k].pdf_url =
                         AbsoluteUrl(pdf_links[scrape.link_index + k])]_vars

(***************************************************************************)
(* Properties of parse_date                                                *)
(***************************************************************************)
\* the string has the shape 'Month D, YYYY': an English month name, a space,
\* a day of one or two digits, a comma, a space, a year of four digits
HasShape(d) ==
    /\ d.month \in {"January", "February", "March", "April", "May", "June", "July",
                    "August", "September", "October", "November", "December"}
    /\ d.gap = 1
    /\ d.day \in 0..99
    /\ d.year \in 0..9999

\* 'YYYY-MM-DD' of the dates tried
IsoText(d) ==
    [iso |->
        (CASE d.year = 2019 -> << "2", "0", "1", "9" >>
           [] d.year = 2020 -> << "2", "0", "2", "0" >>
           [] OTHER -> << "0", "0", "0", "0" >>)
        \o << "-" >> \o
        (CASE d.month = "January" -> << "0", "1" >>
           [] d.month = "February" -> << "0", "2" >>
           [] d.month = "April" -> << "0", "4" >>
           [] OTHER -> << "0", "0" >>)
        \o << "-" >> \o
        (CASE d.day = 1 -> << "0", "1" >>
           [] d.day = 29 -> << "2", "9" >>
           [] d.day = 30 -> << "3", "0" >>
           [] d.day = 31 -> << "3", "1" >>
           [] OTHER -> << "0", "0" >>)]

\* the string names a day of the calendar, in a year from 1000 to 9999
NamesRealDate(d) ==
    /\ d.year \in 1000..9999
    /\ d.day >= 1
    /\ \/ d.month = "January" /\ d.day <= 31
       \/ d.month = "April" /\ d.day <= 30
       \/ d.month = "February" /\ d.day <= 28
       \/ d.month = "February" /\ d.day = 29 /\ d.year = 2020

\* the shape with any white space where it has a space
HasShapeUpToSpaces(d) == HasShape([d EXCEPT !.gap = 1]) /\ d.gap >= 1

\* the original statement of C15: every string of the shape 'Month D, YYYY'
\* with an English month name comes back as 'YYYY-MM-DD', every other string
\* unchanged.
C15_ShapeAlwaysConverted ==
    (date_out # NoDate) =>
        date_out = IF HasShape(date_in) THEN IsoText(date_in) ELSE date_in

\* C15 (amended): a string of the shape 'Month D, YYYY' (any white space for
\* its spaces) that names a real calendar date comes back as 'YYYY-MM-DD'; a
\* string of that shape that names no calendar date (February 30, April 31,
\* day 0, year 0000) and every string not of the shape come back unchanged.
C15_RealDatesConverted ==
    (date_out # NoDate) =>
        date_out = IF HasShapeUpToSpaces(date_in) /\ NamesRealDate(date_in)
                   THEN IsoText(date_in)
                   ELSE date_in

\* C15 witness: 'February 29, 2020' was normalised to '2020-02-29'.
C15_Witness ==
    /\ date_in = [month |-> "February", gap |-> 1, day |-> 29, year |-> 2020]
    /\ date_out = [iso |-> << "2", "0", "2", "0", "-", "0", "2", "-", "2", "9" >>]


(***************************************************************************)
(* Properties of concurrent instances                                      *)
(***************************************************************************)
\* every instance has finished
AllDone == \A i \in Instances : inst[i].pc = "done"

\* the instances working on this order_id
On(id) == { i \in Instances : inst[i].order_id = id }

\* every database call of the instances on this order_id committed
AllCommitted(id) == \A i \in On(id) : inst[i].meta /\ inst[i].wrote

\* the rows of a table for this order_id, in table order
RowsOf(table, id) == LET Mine(r) == r.order_id = id IN SelectSeq(table, Mine)

\* a step of an instance leaves the rows of every other order_id as they are
OthersUntouched ==
    \A id \in OrderIds :
        (\A i \in Instances : inst'[i] # inst[i] => inst[i].order_id # id) =>
            /\ RowsOf(executive_orders', id) = RowsOf(executive_orders, id)
            /\ RowsOf(order_texts', id) = RowsOf(order_texts, id)

\* two instances on one order_id, all of whose database calls committed,
\* leave one metadata row and one text row
OneRowEach ==
    \A id \in OrderIds :
        (AllDone /\ Cardinality(On(id)) = 2 /\ AllCommitted(id)) =>
            /\ RowCount(executive_orders, id) = 1
            /\ RowCount(order_texts, id) = 1

\* the original statement of C18: for any interleaving of two instances on the
\* same order_id the store ends with exactly one metadata row and exactly one
\* text row for it, and instances on different order_ids leave each other's
\* rows alone.
C18_OneRowPerOrder == []OneRowEach /\ [][OthersUntouched]_vars

\* two instances on one order_id leave one metadata row; they leave one text
\* row when one's read-then-write committed before the other's existence
\* check, and two when both checked before either inserted
OneRowUnlessOverlapped ==
    \A id \in OrderIds :
        (AllDone /\ Cardinality(On(id)) = 2 /\ AllCommitted(id)) =>
            /\ RowCount(executive_orders, id) = 1
            /\ \E i \in On(id) : RowsOf(executive_orders, id) = << EntryOf(inst[i]) >>
            /\ RowCount(order_texts, id) =
                  IF \E i \in On(id) : inst[i].overlapped /\ ~inst[i].seen
                  THEN 2 ELSE 1
            /\ \A k \in DOMAIN order_texts :
                  order_texts[k].order_id = id =>
                      \E i \in On(id) : order_texts[k] = TextEntryOf(inst[i])

\* C18 (amended): two instances on the same order_id, all of whose database
\* calls commit, leave exactly one metadata row, and one text row unless both
\* ran their existence check before either inserted, in which case they leave
\* two; instances on different order_ids leave each other's rows alone.
C18_OneRowUnlessRace == []OneRowUnlessOverlapped /\ [][OthersUntouched]_vars

\* C18 witness: both instances worked on one order_id, each checked before the
\* other inserted, and the order has one metadata row and two text rows.
C18_Witness ==
    /\ AllDone
    /\ inst["a"].order_id = inst["b"].order_id
    /\ AllCommitted(inst["a"].order_id)
    /\ RowCount(executive_orders, inst["a"].order_id) = 1
    /\ RowCount(order_texts, inst["a"].order_id) = 2


=============================================================================
